---- MODULE Spec2Model ----
(***************************************************************************)
(* A model of src/index.ts of cursor2.0-terminal: the path confinement     *)
(* (normalizePath), the file materializer (createDynamicFile), and the     *)
(* step-driven workflow driver (runAgent) with its readline front end.     *)
(*                                                                         *)
(* Paths are modelled at the level of their segments.  A raw path (a       *)
(* string as the backend supplies it) is a non-empty sequence of records   *)
(* [sep, name]: the pieces obtained by cutting the string at every '/'     *)
(* and every '\', each with the separator that precedes it (the first      *)
(* piece has sep "").  A name holds no separator; "" is the empty piece    *)
(* (so "/a" is <<"", "a">> and "a//b" is <<"a", "", "b">>).  path.* is     *)
(* the POSIX flavour of Node's path module, where only '/' separates.      *)
(***************************************************************************)
EXTENDS Integers, Sequences, FiniteSets, TLC

\* ------------------------------------------------------------------ bounds
MaxSegs == 3        \* pieces of a raw path drawn in PathSpec
MaxCalls == 4       \* createDynamicFile calls in one FsSpec behaviour

\* -------------------------------------------------------------- constants
ROOT_DIR == "chaicode"

\* ------------------------------------------------------------------- paths
Names == {"", ".", "..", "chaicode", "a"}
Seps == {"/", "\\"}

\* The raw path whose pieces are `names`, all separated by '/'.
Rel(names) == [i \in 1..Len(names) |-> [sep |-> IF i = 1 THEN "" ELSE "/", name |-> names[i]]]

RECURSIVE SplitSlash(_, _, _)
\* String.split('/') as path.normalize sees the string: pieces joined by '\'
\* stay together in one POSIX segment (a sequence of names).
SplitSlash(p, i, acc) ==
  IF i > Len(p) THEN acc
  ELSE IF p[i].sep = "/"
       THEN SplitSlash(p, i + 1, Append(acc, <<p[i].name>>))
       ELSE SplitSlash(p, i + 1, [acc EXCEPT ![Len(acc)] = Append(@, p[i].name)])

PosixSegments(p) == SplitSlash(p, 2, << <<p[1].name>> >>)

\* The string starts with '/'.
IsAbsolute(p) == Len(p) >= 2 /\ p[1].name = "" /\ p[2].sep = "/"

RECURSIVE NormalizeString(_, _, _, _)
\* Node's normalizeString: drops empty and '.' segments, resolves '..' against
\* the segment before it, and keeps a leading '..' only when allowAboveRoot.
NormalizeString(segs, i, res, allowAboveRoot) ==
  IF i > Len(segs) THEN res
  ELSE LET s == segs[i] IN
    IF s = <<"">> \/ s = <<".">>
    THEN NormalizeString(segs, i + 1, res, allowAboveRoot)
    ELSE IF s = <<"..">>
    THEN IF Len(res) > 0 /\ res[Len(res)] # <<"..">>
         THEN NormalizeString(segs, i + 1, SubSeq(res, 1, Len(res) - 1), allowAboveRoot)
         ELSE IF allowAboveRoot
              THEN NormalizeString(segs, i + 1, Append(res, s), allowAboveRoot)
              ELSE NormalizeString(segs, i + 1, res, allowAboveRoot)
    ELSE NormalizeString(segs, i + 1, Append(res, s), allowAboveRoot)

RECURSIVE Flatten(_)
Flatten(groups) == IF groups = <<>> THEN <<>> ELSE Head(groups) \o Flatten(Tail(groups))

\* Array.filter(part => part): the empty pieces go.
FilterParts(names) == SelectSeq(names, LAMBDA n : n # "")

\* Line 37-38: path.normalize(filePath).replace(/\\/g, '/').split('/').filter(part => part)
SplitParts(filePath) ==
  LET norm == NormalizeString(PosixSegments(filePath), 1, <<>>, ~IsAbsolute(filePath))
  IN IF norm = <<>> /\ ~IsAbsolute(filePath) THEN <<".">> ELSE FilterParts(Flatten(norm))

\* Array.indexOf, 1-based; 0 when absent (JavaScript's -1).
IndexOf(parts, x) ==
  IF \E i \in 1..Len(parts) : parts[i] = x
  THEN CHOOSE i \in 1..Len(parts) : parts[i] = x /\ \A j \in 1..(i - 1) : parts[j] # x
  ELSE 0

\* Lines 39-42: parts.splice(0, chaicodeIndex) when 'chaicode' sits at a later index.
DropBeforeRoot(parts) ==
  LET chaicodeIndex == IndexOf(parts, ROOT_DIR)
  IN IF chaicodeIndex # 0 /\ chaicodeIndex # 1
     THEN SubSeq(parts, chaicodeIndex, Len(parts))
     ELSE parts

\* path.join(ROOT_DIR, ...parts): the arguments joined by '/' and normalized.
\* The result is a sequence of names; <<".">> is the current directory.
PathJoin(first, parts) ==
  LET segs == [i \in 1..(Len(parts) + 1) |-> IF i = 1 THEN <<first>> ELSE <<parts[i - 1]>>]
      norm == NormalizeString(segs, 1, <<>>, TRUE)
  IN IF norm = <<>> THEN <<".">> ELSE Flatten(norm)

normalizePath(filePath) == PathJoin(ROOT_DIR, DropBeforeRoot(SplitParts(filePath)))

\* path.dirname of a normalized relative path.
Dirname(p) == IF Len(p) <= 1 THEN <<".">> ELSE SubSeq(p, 1, Len(p) - 1)

\* A path stays inside the root: it is the root or lies below it.
InsideRoot(p) == Len(p) >= 1 /\ p[1] = ROOT_DIR

\* -------------------------------------------------------------- filesystem
\* The filesystem is a function from normalized relative paths to nodes.  The
\* current directory and the chain of its parents ("..", "../..") always
\* exist as directories.
DirNode == [kind |-> "dir", content |-> ""]
FileNode(content) == [kind |-> "file", content |-> content]

ImplicitDir(p) == p = <<".">> \/ \A i \in 1..Len(p) : p[i] = ".."

existsSync(f, p) == ImplicitDir(p) \/ p \in DOMAIN f
IsDirectory(f, p) == ImplicitDir(p) \/ (p \in DOMAIN f /\ f[p].kind = "dir")
IsFile(f, p) == ~ImplicitDir(p) /\ p \in DOMAIN f /\ f[p].kind = "file"

\* The path and the directories above it, the implicit ones left out.
Prefixes(p) == {SubSeq(p, 1, k) : k \in 1..Len(p)} \ {q \in {SubSeq(p, 1, k) : k \in 1..Len(p)} : ImplicitDir(q)}

\* fs.mkdirSync(dirPath, { recursive: true }): fails (ENOTDIR / EEXIST) when
\* the path or a directory above it is a regular file, and then creates nothing.
mkdirSync(f, dirPath) ==
  IF \E q \in Prefixes(dirPath) : IsFile(f, q)
  THEN [ok |-> FALSE, fs |-> f]
  ELSE [ok |-> TRUE,
        fs |-> [q \in DOMAIN f \cup Prefixes(dirPath) |-> IF q \in DOMAIN f THEN f[q] ELSE DirNode]]

\* fs.writeFileSync(fileName, content): fails on a directory (EISDIR) and
\* under a parent that is no directory (ENOENT / ENOTDIR).
writeFileSync(f, fileName, content) ==
  IF IsDirectory(f, fileName) \/ ~IsDirectory(f, Dirname(fileName))
  THEN [ok |-> FALSE, fs |-> f]
  ELSE [ok |-> TRUE,
        fs |-> [q \in DOMAIN f \cup {fileName} |-> IF q = fileName THEN FileNode(content) ELSE f[q]]]

\* Lines 29-33.
ensureRootDir(f) ==
  IF ~existsSync(f, <<ROOT_DIR>>) THEN mkdirSync(f, <<ROOT_DIR>>).fs ELSE f

\* The outcome strings of createDynamicFile (lines 191, 195, 199, 202).
Outcome(kind, fileName) == [kind |-> kind, fileName |-> fileName]
ErrorOutcome == [kind |-> "error", fileName |-> <<>>]

\* Line 189: existingContent === args.content
SameContentAlwaysDiffers(existingContent, content) == FALSE
SameContent(existingContent, content) == existingContent = content

\* Lines 183-186: create the parent directory unless it is the root or exists.
EnsureParentSkipped(f, dirPath) == [ok |-> TRUE, fs |-> f]
EnsureParent(f, dirPath) ==
  IF dirPath # <<ROOT_DIR>> /\ ~existsSync(f, dirPath)
  THEN mkdirSync(f, dirPath)
  ELSE [ok |-> TRUE, fs |-> f]

\* Lines 179-204.  args is a tagged value: [t |-> "file", fileName, content]
\* is a record {fileName, content}; any other value has no fileName, and
\* path.normalize(undefined) throws inside the try.  Every throw inside the
\* try becomes the error outcome; what was done before it stays done.
createDynamicFile(f, args) ==
  LET f0 == ensureRootDir(f) IN
  IF args.t # "file" THEN [fs |-> f0, result |-> ErrorOutcome]
  ELSE
    LET fileName == normalizePath(args.fileName)
        dir == EnsureParent(f0, Dirname(fileName))
        f1 == dir.fs
    IN IF ~dir.ok THEN [fs |-> f1, result |-> ErrorOutcome]
       ELSE IF existsSync(f1, fileName)
       THEN IF IsDirectory(f1, fileName)
            THEN [fs |-> f1, result |-> ErrorOutcome]      \* readFileSync: EISDIR
            ELSE IF SameContent(f1[fileName].content, args.content)
                 THEN [fs |-> f1, result |-> Outcome("unchanged", fileName)]
                 ELSE LET w == writeFileSync(f1, fileName, args.content)
                      IN [fs |-> w.fs,
                          result |-> IF w.ok THEN Outcome("updated", fileName) ELSE ErrorOutcome]
       ELSE LET w == writeFileSync(f1, fileName, args.content)
            IN [fs |-> w.fs,
                result |-> IF w.ok THEN Outcome("created", fileName) ELSE ErrorOutcome]

FileArgs(fileName, content) == [t |-> "file", fileName |-> fileName, content |-> content]

\* The filesystem once main() has run ensureRootDir (line 663).
InitFs == ensureRootDir(<<>>)

\* ---------------------------------------------------------------- values
\* JavaScript's undefined / null, for the string-valued variables.
Undefined == "<undefined>"
Null == "<null>"
\* updateFile is a raw path; the empty sequence stands for undefined.
NoPath == <<>>

\* JSON values are tagged records.
JNull == [t |-> "null"]
JString(path) == [t |-> "string", value |-> path]
JArray(items) == [t |-> "array", items |-> items]
StructureArgs == [t |-> "structure", projectType |-> "HTML web app", description |-> "creates a to-do list"]
ContentArgs == [t |-> "content", filePath |-> Rel(<<"todo-app", "script.js">>), projectType |-> "HTML web app", description |-> "creates a to-do list"]

\* Line 13.
StepTypes == {"initialization", "analyze", "generate_structure", "generate_files", "final_result"}

\* Lines 362-379.
available_tools == {"read_directory", "create_dynamic_file", "generate_project_structure", "generate_file_content"}

StepResponse(step, content, function, args) ==
  [step |-> step, content |-> content, function |-> function, args |-> args]
NoStep == StepResponse("<none>", "", Null, JNull)

\* ------------------------------------------------- the inputs of the model
\* Request lines the user types.
UserMsgs == {"Create a to-do list in HTML", "css file is NOT WORKING when I run it",
             "run the project"}

\* String.toLowerCase on the request lines.
toLowerCase(msg) ==
  CASE msg = "css file is NOT WORKING when I run it" -> "css file is not working when i run it"
    [] msg = "Create a to-do list in HTML" -> "create a to-do list in html"
    [] OTHER -> msg

\* String.includes on the lower-cased request lines.
includes(lowerMsg, word) ==
  \/ lowerMsg = "css file is not working when i run it" /\ word \in {"not working", "run"}
  \/ lowerMsg = "run the project" /\ word = "run"

\* The analyze contents the backend writes.
ContentPlain == "Working on it."
ContentFound == "Found project 'todo-app' in 'root' with a style.css."
ContentIdentified == "Found project 'todo-app' in 'chaicode', identified as an HTML web app."

\* Line 506: content.match(/identified as an? ([\w\s]+)\./), group 1.
TypeMatch(content) == IF content = ContentIdentified THEN "HTML web app" ELSE Undefined
\* Line 507: /I'll name it '([^']+)'/ or /Found project '([^']+)'/, group 1.
NameMatch(content) ==
  IF content \in {ContentFound, ContentIdentified} THEN "todo-app" ELSE Undefined
\* Lines 512-517: /Found project '([^']+)' in '.*' with a ([^']+)\.(\w+)/ as P/F.E
UpdateFileMatch(content) ==
  IF content = ContentFound THEN Rel(<<"todo-app", "style.css">>) ELSE NoPath

FileX == FileArgs(Rel(<<"app", "x.txt">>), "hi")
FileIndex == FileArgs(Rel(<<"todo-app", "index.html">>), "<html>")
FileStyle == FileArgs(Rel(<<"todo-app", "style.css">>), "body {}")
\* A record whose confined target is the root directory itself.
FileDot == FileArgs(Rel(<<".">>), "hi")

\* The step records the backend replies with: the five steps of the protocol
\* with the tool calls of the system instruction's example flows (lines
\* 419-437), and well-formed JSON that departs from them.
StepReplies ==
  { StepResponse("initialization", ContentPlain, Null, JNull),
    StepResponse("analyze", ContentFound, "read_directory", JString(Rel(<<ROOT_DIR>>))),
    StepResponse("analyze", ContentIdentified, "read_directory", JString(Rel(<<"..">>))),
    StepResponse("generate_structure", ContentPlain, "generate_project_structure", StructureArgs),
    StepResponse("generate_structure", ContentPlain, Null, JNull),
    StepResponse("generate_files", ContentPlain, "create_dynamic_file", JArray(<<FileIndex, FileStyle>>)),
    StepResponse("generate_files", ContentPlain, "generate_file_content", ContentArgs),
    StepResponse("generate_files", ContentPlain, "open_browser", JNull),
    StepResponse("generate_files", ContentPlain, "create_dynamic_file", FileDot),
    StepResponse("final_result", ContentPlain, Null, JNull),
    StepResponse("final_result", ContentPlain, "create_dynamic_file", JNull),
    StepResponse("deploy", ContentPlain, "create_dynamic_file", FileX) }

\* What generateContent returns (lines 445-459): null, or the reply text.  A
\* text is a JSON object (a step record), the JSON text null, or no JSON.
BackendReplies ==
  {[t |-> "none"], [t |-> "garbage"], [t |-> "json", value |-> JNull]}
    \cup {[t |-> "json", value |-> [t |-> "object", record |-> d]] : d \in StepReplies}

\* Lines 479-488: the cleaning and JSON.parse; ok is FALSE when it throws.
ParseReplyLenient(reply) ==
  [ok |-> TRUE,
   value |-> IF reply.t = "json" THEN reply.value ELSE [t |-> "object", record |-> NoStep]]
ParseReply(reply) ==
  IF reply.t = "json" THEN [ok |-> TRUE, value |-> reply.value] ELSE [ok |-> FALSE, value |-> JNull]

\* The structure generateProjectStructure obtains (lines 236-248): a JSON
\* object with a structure array, '{}' on any failure, or other valid JSON.
StructureList == <<"chaicode/todo-app/index.html", "chaicode/todo-app/execute.md">>
\* '{}' (lines 236, 245, 248), whose structure reads as [] at line 530.
StructurePlaceholder == [t |-> "object", structure |-> <<>>]
StructureResults == {[t |-> "object", structure |-> StructureList],
                     StructurePlaceholder,
                     JNull}

\* What generateFileContent returns (lines 339-341).
ContentError == "// Error generating content"
ContentResults == {"<generated>", ContentError}

\* The answers typed at the approval prompt.
Answers == {"yes", " YES ", "y", "no", ""}
\* Line 352: answer.trim().toLowerCase()
TrimLower(answer) == IF answer = " YES " THEN "yes" ELSE answer
\* Line 352: the answer approves.
ApprovesByInitial(answer) == TrimLower(answer) \in {"yes", "y"}
Approves(answer) == TrimLower(answer) = "yes"

\* --------------------------------------------------------------- the state
MaxEvents == 4      \* request lines and backend replies in one behaviour

Runs == 1..MaxEvents

VARIABLES
  contents,           \* line 22: the conversation log
  proposedStructure,  \* line 23
  projectType,        \* line 25
  projectName,        \* line 26
  fs,                 \* the filesystem
  questionCb,         \* the run whose rl.question callback is pending, 0 if none
  runs,               \* per runAgent call: its position and its locals
  nEvents,            \* request lines and backend replies so far
  appends,            \* contents.push calls made so far
  pathIn, pathOut,    \* PathSpec: an input of normalizePath and its result
  calls,              \* FsSpec: the createDynamicFile calls made, in order
  replyRecord,        \* ParseSpec: the step record the backend serialized,
  replyText,          \*   the text it sent, and what lines 479-488 make of it
  replyParsed

wfVars == <<contents, proposedStructure, projectType, projectName, questionCb, runs, nEvents, appends>>
pathVars == <<pathIn, pathOut>>
parseVars == <<replyRecord, replyText, replyParsed>>
vars == <<contents, proposedStructure, projectType, projectName, fs, questionCb, runs,
          nEvents, appends, pathIn, pathOut, calls, replyRecord, replyText, replyParsed>>

\* No reply text is being looked at.
NotParsed == [done |-> FALSE, ok |-> FALSE, value |-> NoStep]
NoReply == replyRecord = NoStep /\ replyText = <<>> /\ replyParsed = NotParsed

\* A runAgent call that has not begun.
IdleRun ==
  [pc |-> "idle", userMsg |-> "", isUpdateRequest |-> FALSE, isExecutionRequest |-> FALSE,
   updateIssue |-> Undefined, updateFile |-> NoPath, dataObj |-> NoStep,
   reqBody |-> <<>>, requests |-> 0, idx |-> 0, functionResult |-> <<>>,
   class |-> "<none>", approved |-> FALSE, asked |-> 0, rejected |-> FALSE,
   materialized |-> FALSE, unapproved |-> FALSE,
   pushes |-> 0, response |-> "<none>", answer |-> "<none>", dirRead |-> <<>>,
   failures |-> 0, declared |-> Null, stepTurns |-> <<>>, produced |-> <<>>,
   presented |-> <<>>, execWrite |-> FALSE, output |-> "<none>"]

Ended(run) == run.pc \in {"done", "aborted"}
InProgress(run) == run.pc \notin {"idle", "done", "aborted"}

WfInit ==
  /\ contents = <<>>
  /\ proposedStructure = <<>>
  /\ projectType = Undefined
  /\ projectName = Undefined
  /\ questionCb = 0
  /\ runs = [r \in Runs |-> IdleRun]
  /\ nEvents = 0
  /\ appends = 0

\* ------------------------------------------------------------ the driver
\* The synchronous stretches of runAgent are functions on a record st of the
\* shared variables and the locals (me) of the run executing; an action
\* commits the record its stretch ends with.  Every await is the end of a
\* stretch, so the stretches of different runs interleave at the awaits.
StateOf(r) ==
  [contents |-> contents, proposedStructure |-> proposedStructure,
   projectType |-> projectType, projectName |-> projectName, fs |-> fs,
   questionCb |-> questionCb, appends |-> appends, r |-> r, me |-> runs[r]]

Commit(st) ==
  /\ contents' = st.contents
  /\ proposedStructure' = st.proposedStructure
  /\ projectType' = st.projectType
  /\ projectName' = st.projectName
  /\ fs' = st.fs
  /\ questionCb' = st.questionCb
  /\ appends' = st.appends
  /\ runs' = [runs EXCEPT ![st.r] = st.me]

\* A turn of the log: { role, parts: [{ text }] }.
Turn(role, text) == [role |-> role, text |-> text]
Text(string) == [t |-> "text", v |-> string]
\* JSON.stringify of a step record or a tool result.
Stringify(value) == [t |-> "json", v |-> value]
ProceedText == Text("Proceed to next step")

\* contents.push(turn): lines 465, 492, 557, 577, 602.
AppendTurnWindowed(log, turn) ==
  IF Len(log) >= 3 THEN Append(Tail(log), turn) ELSE Append(log, turn)
AppendTurn(log, turn) == Append(log, turn)
\* What a turn is to the run that pushes it: its request (line 465), a step
\* record (492), a tool result (557, 577) or 'Proceed to next step' (602).
TurnKind(role, text) ==
  IF text.t = "json" THEN (IF role = "model" THEN "model" ELSE "result")
  ELSE IF text.v = "Proceed to next step" THEN "proceed" ELSE "request"
Push(st, role, text) ==
  [st EXCEPT !.contents = AppendTurn(@, Turn(role, text)), !.appends = @ + 1,
             !.me.pushes = @ + 1,
             !.me.stepTurns = Append(@, TurnKind(role, text))]

\* Lines 442, 450: the body posted holds reqBody.contents, which is the
\* contents array itself.
RequestBodyLastTurn(log) == IF log = <<>> THEN <<>> ELSE <<log[Len(log)]>>
RequestBody(log) == log

\* Line 473: generateContent() posts the request and the run awaits the reply.
SendRequest(st) ==
  [st EXCEPT !.me.pc = "backend", !.me.reqBody = RequestBody(st.contents),
             !.me.requests = @ + 1]

\* Lines 476, 564, 605: break.
Abort(st) == [st EXCEPT !.me.pc = "aborted"]

\* Line 602, then the loop's next iteration.
ProceedSilently(st) == SendRequest(st)
Proceed(st) == SendRequest(Push(st, "user", ProceedText))

\* Lines 580-600; the output is the execution instructions (586-591) or the
\* success animation of a creation (593).
FinalResult(st) ==
  [st EXCEPT !.proposedStructure = <<>>, !.projectType = Undefined, !.projectName = Undefined,
             !.me.output = IF st.me.isExecutionRequest THEN "execution" ELSE "summary",
             !.me.isUpdateRequest = FALSE, !.me.isExecutionRequest = FALSE,
             !.me.updateIssue = Undefined, !.me.updateFile = NoPath, !.me.pc = "done"]

\* From line 580 on.
AfterOverride(st) ==
  IF st.me.dataObj.step = "final_result" THEN FinalResult(st) ELSE Proceed(st)

\* Lines 568-573: the override sets dataObj.function and awaits
\* generateFileContent(updateFile, ...).
AfterGateAnyUpdate(st) ==
  IF st.me.dataObj.step = "generate_files" /\ st.me.isUpdateRequest
  THEN [st EXCEPT !.me.dataObj.function = "create_dynamic_file", !.me.pc = "override"]
  ELSE AfterOverride(st)
AfterGate(st) ==
  IF st.me.dataObj.step = "generate_files" /\ st.me.isUpdateRequest /\ st.me.updateFile # NoPath
  THEN [st EXCEPT !.me.dataObj.function = "create_dynamic_file", !.me.pc = "override"]
  ELSE AfterOverride(st)

\* Lines 346-351: presentStructure calls rl.question.  readline keeps one
\* question callback: a question asked while another is pending installs
\* nothing, and its promise never resolves.
presentStructure(st) ==
  [st EXCEPT !.questionCb = IF @ = 0 THEN st.r ELSE @,
             !.me.pc = "approval", !.me.asked = @ + 1,
             !.me.presented = st.proposedStructure]

\* Lines 561-565: the gate has resolved; the run breaks unless approved.
GateResolvedIgnoringAnswer(st, approved) == AfterGate(st)
GateResolved(st, approved) == IF approved THEN AfterGate(st) ELSE Abort(st)

\* Lines 560-566.
AfterDispatch(st) ==
  IF /\ st.me.dataObj.step = "generate_structure"
     /\ Len(st.proposedStructure) > 0
     /\ ~st.me.isUpdateRequest
     /\ ~st.me.isExecutionRequest
  THEN presentStructure(st)
  ELSE AfterGate(st)

\* Line 557: the result of the tool is pushed whatever it is; failed says that
\* it is the error string or placeholder of a tool that failed.
PushResultAbortOnFailure(st, functionResult, failed) ==
  IF failed THEN Abort([st EXCEPT !.me.failures = @ + 1])
  ELSE AfterDispatch(Push(st, "user", Stringify(functionResult)))
PushResult(st, functionResult, failed) ==
  AfterDispatch(Push([st EXCEPT !.me.failures = IF failed THEN @ + 1 ELSE @],
                     "user", Stringify(functionResult)))

\* fs.readdirSync on a path as given (lines 149-176): the names in the
\* directory, or the error result.  The path is used as it is.
readDirectory(f, dirPath) ==
  IF dirPath.t # "string" THEN [path |-> <<>>, items |-> {}, ok |-> FALSE]
  ELSE LET segs == NormalizeString(PosixSegments(dirPath.value), 1, <<>>, TRUE)
           dir == IF segs = <<>> THEN <<".">> ELSE Flatten(segs)
       IN IF IsDirectory(f, dir)
          THEN [path |-> dir, ok |-> TRUE,
                items |-> {q \in DOMAIN f : Len(q) >= 1 /\ Dirname(q) = dir /\ q # dir}]
          ELSE [path |-> dir, items |-> {}, ok |-> FALSE]

\* One createDynamicFile call of the dispatch (lines 546, 551) or of the
\* override (line 576), on the run's filesystem.
MaterializePrepending(st, args) ==
  LET res == createDynamicFile(st.fs, args)
  IN [st EXCEPT !.fs = res.fs,
                !.me.functionResult = <<res.result>> \o @,
                !.me.materialized = TRUE,
                !.me.unapproved = @ \/ ~st.me.approved,
                !.me.execWrite = @ \/ st.me.isExecutionRequest]
Materialize(st, args) ==
  LET res == createDynamicFile(st.fs, args)
  IN [st EXCEPT !.fs = res.fs,
                !.me.functionResult = Append(@, res.result),
                !.me.materialized = TRUE,
                !.me.unapproved = @ \/ ~st.me.approved,
                !.me.execWrite = @ \/ st.me.isExecutionRequest]

\* Lines 522-558, up to the first await of the branch taken.
DispatchUnregistered(st) ==
  LET d == st.me.dataObj IN
  IF d.function = Null THEN AfterDispatch(st)
  ELSE IF d.function = "generate_project_structure" THEN [st EXCEPT !.me.pc = "gps"]
  ELSE IF d.function = "generate_file_content"
       THEN IF d.args.t = "null" THEN Abort(st) ELSE [st EXCEPT !.me.pc = "gfc"]
  ELSE IF d.function = "create_dynamic_file"
       THEN IF d.args.t = "array"
            THEN IF Len(d.args.items) = 0
                 THEN PushResult(st, <<>>, FALSE)
                 ELSE [st EXCEPT !.me.pc = "cdf", !.me.idx = 1, !.me.functionResult = <<>>]
            ELSE IF d.args.t = "null" THEN Abort(st)
                 ELSE [st EXCEPT !.me.pc = "cdf", !.me.idx = 0, !.me.functionResult = <<>>]
  ELSE LET res == readDirectory(ensureRootDir(st.fs), d.args)
       IN PushResult([st EXCEPT !.fs = ensureRootDir(@), !.me.dirRead = res.path], res, ~res.ok)
\* Lines 522-558, up to the first await of the branch taken.
Dispatch(st) ==
  LET d == st.me.dataObj IN
  IF d.function = Null \/ d.function \notin available_tools THEN AfterDispatch(st)
  ELSE IF d.function = "generate_project_structure" THEN [st EXCEPT !.me.pc = "gps"]
  ELSE IF d.function = "generate_file_content"
       THEN IF d.args.t = "null" THEN Abort(st) ELSE [st EXCEPT !.me.pc = "gfc"]
  ELSE IF d.function = "create_dynamic_file"
       THEN IF d.args.t = "array"
            THEN IF Len(d.args.items) = 0
                 THEN PushResult(st, <<>>, FALSE)
                 ELSE [st EXCEPT !.me.pc = "cdf", !.me.idx = 1, !.me.functionResult = <<>>]
            ELSE IF d.args.t = "null" THEN Abort(st)
                 ELSE [st EXCEPT !.me.pc = "cdf", !.me.idx = 0, !.me.functionResult = <<>>]
  ELSE LET res == readDirectory(ensureRootDir(st.fs), d.args)
       IN PushResult([st EXCEPT !.fs = ensureRootDir(@), !.me.dirRead = res.path], res, ~res.ok)

\* Lines 494-502.
ClassifyExecutionFirst(st) ==
  LET lowerMsg == toLowerCase(st.me.userMsg) IN
  IF st.me.dataObj.step # "initialization" THEN st
  ELSE IF includes(lowerMsg, "run") \/ includes(lowerMsg, "execute") \/ includes(lowerMsg, "start")
       THEN [st EXCEPT !.me.isExecutionRequest = TRUE, !.me.class = "execution"]
  ELSE IF includes(lowerMsg, "not working") \/ includes(lowerMsg, "fix") \/ includes(lowerMsg, "update")
       THEN [st EXCEPT !.me.isUpdateRequest = TRUE, !.me.updateIssue = st.me.userMsg,
                       !.me.class = "update"]
  ELSE [st EXCEPT !.me.class = "new"]
Classify(st) ==
  LET lowerMsg == toLowerCase(st.me.userMsg) IN
  IF st.me.dataObj.step # "initialization" THEN st
  ELSE IF includes(lowerMsg, "not working") \/ includes(lowerMsg, "fix") \/ includes(lowerMsg, "update")
       THEN [st EXCEPT !.me.isUpdateRequest = TRUE, !.me.updateIssue = st.me.userMsg,
                       !.me.class = "update"]
  ELSE IF includes(lowerMsg, "run") \/ includes(lowerMsg, "execute") \/ includes(lowerMsg, "start")
       THEN [st EXCEPT !.me.isExecutionRequest = TRUE, !.me.class = "execution"]
  ELSE [st EXCEPT !.me.class = "new"]

\* Lines 504-520.
AnalyzeAnyRun(st) ==
  LET content == st.me.dataObj.content IN
  IF st.me.dataObj.step # "analyze" THEN st
  ELSE [st EXCEPT
          !.projectType = IF TypeMatch(content) # Undefined THEN TypeMatch(content) ELSE @,
          !.projectName = IF NameMatch(content) # Undefined THEN NameMatch(content) ELSE @,
          !.me.updateFile = IF UpdateFileMatch(content) # NoPath
                            THEN UpdateFileMatch(content) ELSE @]
\* Lines 504-520.
Analyze(st) ==
  LET content == st.me.dataObj.content IN
  IF st.me.dataObj.step # "analyze" THEN st
  ELSE [st EXCEPT
          !.projectType = IF TypeMatch(content) # Undefined THEN TypeMatch(content) ELSE @,
          !.projectName = IF NameMatch(content) # Undefined THEN NameMatch(content) ELSE @,
          !.me.updateFile = IF st.me.isUpdateRequest /\ UpdateFileMatch(content) # NoPath
                            THEN UpdateFileMatch(content) ELSE @]

\* Lines 474-522: what the run does with the reply it awaited.
HandleReply(st0, reply) ==
  LET st == [st0 EXCEPT !.me.response = reply.t, !.me.stepTurns = <<>>] IN
  IF reply.t = "none" THEN Abort(st)
  ELSE LET parsed == ParseReply(reply) IN
    IF ~parsed.ok THEN Abort(st)
    ELSE IF parsed.value.t # "object" THEN Abort(st)     \* line 489: null.step throws
    ELSE LET st1 == [st EXCEPT !.me.dataObj = parsed.value.record,
                               !.me.declared = parsed.value.record.function]
             st2 == Push(st1, "model", Stringify(parsed.value.record))
         IN Dispatch(Analyze(Classify(st2)))

\* ------------------------------------------------------------ the actions
\* Lines 665-669, 616-631, 461-473: a request line arrives while no question
\* is pending.  The 'line' handler does not wait for an earlier call of itself:
\* it calls processInput, which calls runAgent, at once.
UserLine(msg) ==
  /\ questionCb = 0
  /\ nEvents < MaxEvents
  /\ nEvents' = nEvents + 1
  /\ \E r \in Runs :
       /\ runs[r].pc = "idle"
       /\ \A q \in Runs : q < r => runs[q].pc # "idle"
       /\ LET st0 == [StateOf(r) EXCEPT !.me.userMsg = msg]
          IN Commit(SendRequest(Push(st0, "user", Text(msg))))
  /\ UNCHANGED <<pathIn, pathOut, calls, parseVars>>

\* Lines 473-522: generateContent resolves.
BackendReply(r, reply) ==
  /\ runs[r].pc = "backend"
  /\ nEvents < MaxEvents
  /\ nEvents' = nEvents + 1
  /\ Commit(HandleReply(StateOf(r), reply))
  /\ UNCHANGED <<pathIn, pathOut, calls, parseVars>>

\* Lines 527-531: the spinner is over and generateProjectStructure resolves.
StructureGenerated(r, result) ==
  /\ runs[r].pc = "gps"
  /\ LET st == StateOf(r) IN
       IF st.me.dataObj.args.t = "null" \/ result.t = "null"
       THEN Commit(Abort(st))            \* lines 528, 530: a property of null
       ELSE Commit(PushResult([st EXCEPT !.proposedStructure = result.structure,
                                         !.me.produced = result.structure], result,
                              result = StructurePlaceholder))
  /\ UNCHANGED <<nEvents, pathIn, pathOut, calls, parseVars>>

\* Lines 533-540: the spinner is over and generateFileContent resolves.
ContentGenerated(r, content) ==
  /\ runs[r].pc = "gfc"
  /\ LET st == StateOf(r) IN
       IF st.me.dataObj.args.t # "content"
       THEN Commit(Abort(st))            \* line 254: normalizePath(undefined) throws
       ELSE Commit(PushResult(st, content, content = ContentError))
  /\ UNCHANGED <<nEvents, pathIn, pathOut, calls, parseVars>>

\* Lines 542-552: the spinner of one record is over; the record is written.
FileProcessed(r) ==
  /\ runs[r].pc = "cdf"
  /\ LET st == StateOf(r)
         args == st.me.dataObj.args
     IN IF st.me.idx = 0
        THEN LET st1 == Materialize(st, args)
             IN Commit(PushResult([st1 EXCEPT !.me.functionResult = <<>>], st1.me.functionResult[1],
                                  st1.me.functionResult[1].kind = "error"))
        ELSE LET st1 == Materialize(st, args.items[st.me.idx])
             IN IF st.me.idx < Len(args.items)
                THEN Commit([st1 EXCEPT !.me.idx = @ + 1])
                ELSE Commit(PushResult([st1 EXCEPT !.me.functionResult = <<>>, !.me.idx = 0],
                                       st1.me.functionResult,
                                       \E k \in 1..Len(st1.me.functionResult) :
                                          st1.me.functionResult[k].kind = "error"))
  /\ UNCHANGED <<nEvents, pathIn, pathOut, calls, parseVars>>

\* Lines 351-358: the line typed while the question is pending is its answer.
AnswerQuestion(answer) ==
  /\ questionCb # 0
  /\ LET st == [StateOf(questionCb) EXCEPT !.questionCb = 0, !.me.answer = answer] IN
       IF Approves(answer)
       THEN Commit([st EXCEPT !.me.pc = "animation"])
       ELSE Commit(GateResolved([st EXCEPT !.me.rejected = TRUE], FALSE))
  /\ UNCHANGED <<nEvents, pathIn, pathOut, calls, parseVars>>

\* Lines 353-354, 561: showApprovalAnimation is over, the gate resolves true
\* and the callback, with its answer, is gone.
AnimationDone(r) ==
  /\ runs[r].pc = "animation"
  /\ Commit(GateResolved([StateOf(r) EXCEPT !.me.approved = TRUE, !.me.answer = "<none>"], TRUE))
  /\ UNCHANGED <<nEvents, pathIn, pathOut, calls, parseVars>>

\* Lines 570-577: generateFileContent of the override resolves; dataObj.args
\* becomes a one-element array and createDynamicFile is called with the array.
OverrideGenerated(r, content) ==
  /\ runs[r].pc = "override"
  /\ LET st == StateOf(r)
         args == JArray(<<FileArgs(st.me.updateFile, content)>>)
         st1 == Materialize([st EXCEPT !.me.dataObj.args = args, !.me.functionResult = <<>>], args)
     IN Commit(AfterOverride(Push([st1 EXCEPT !.me.functionResult = <<>>], "user",
                                  Stringify(st1.me.functionResult[1]))))
  /\ UNCHANGED <<nEvents, pathIn, pathOut, calls, parseVars>>

Init ==
  /\ WfInit
  /\ fs = InitFs
  /\ pathIn = <<>> /\ pathOut = <<>>
  /\ calls = <<>>
  /\ NoReply

Next ==
  \/ \E msg \in UserMsgs : UserLine(msg)
  \/ \E r \in Runs, reply \in BackendReplies : BackendReply(r, reply)
  \/ \E r \in Runs, result \in StructureResults : StructureGenerated(r, result)
  \/ \E r \in Runs, content \in ContentResults : ContentGenerated(r, content)
  \/ \E r \in Runs : FileProcessed(r)
  \/ \E answer \in Answers : AnswerQuestion(answer)
  \/ \E r \in Runs : AnimationDone(r)
  \/ \E r \in Runs, content \in ContentResults : OverrideGenerated(r, content)

Spec == Init /\ [][Next]_vars

\* ------------------------------------------------------ runs without an end
\* The loop of runAgent (line 472, while (true)) reads neither the log nor
\* any count of what it has done: what a run does next depends on the
\* reply, on its locals (lines 467-470, 484) and on the project context.
\* LiveSpec keeps those and leaves the log and the counts of the run out of
\* the state, so that a run that repeats a step is back in a state it was in.
Forget(st) ==
  [st EXCEPT !.contents = <<>>, !.appends = 0,
             !.me = [IdleRun EXCEPT !.pc = st.me.pc, !.userMsg = st.me.userMsg,
                                    !.isUpdateRequest = st.me.isUpdateRequest,
                                    !.isExecutionRequest = st.me.isExecutionRequest,
                                    !.updateIssue = st.me.updateIssue,
                                    !.updateFile = st.me.updateFile,
                                    !.dataObj = st.me.dataObj, !.idx = st.me.idx,
                                    !.functionResult = st.me.functionResult]]

LiveCommit(st) == Commit(Forget(st))

\* The step records the backend replies with in LiveSpec: every reply parses
\* and names one of the five steps of line 13, and none asks for
\* create_dynamic_file, so that these runs write files in the override only.
WellFormedReplies ==
  {[t |-> "json", value |-> [t |-> "object", record |-> d]] :
     d \in {e \in StepReplies : e.step \in StepTypes /\ e.function # "create_dynamic_file"}}

\* Lines 665-669, 616-631, 461-473: a request line, typed when no run is in
\* progress; runAgent starts with fresh locals.
LiveUserLine(msg) ==
  /\ questionCb = 0
  /\ \A q \in Runs : ~InProgress(runs[q])
  /\ LET st0 == [StateOf(1) EXCEPT !.me = [IdleRun EXCEPT !.userMsg = msg]]
     IN LiveCommit(SendRequest(Push(st0, "user", Text(msg))))
  /\ UNCHANGED <<nEvents, pathIn, pathOut, calls, parseVars>>

\* Lines 473-522: generateContent resolves with a step record.
LiveBackendReply(r, reply) ==
  /\ runs[r].pc = "backend"
  /\ LiveCommit(HandleReply(StateOf(r), reply))
  /\ UNCHANGED <<nEvents, pathIn, pathOut, calls, parseVars>>

\* Lines 527-531.
LiveStructureGenerated(r, result) ==
  /\ runs[r].pc = "gps"
  /\ LET st == StateOf(r) IN
       IF st.me.dataObj.args.t = "null" \/ result.t = "null"
       THEN LiveCommit(Abort(st))
       ELSE LiveCommit(PushResult([st EXCEPT !.proposedStructure = result.structure], result,
                                  result = StructurePlaceholder))
  /\ UNCHANGED <<nEvents, pathIn, pathOut, calls, parseVars>>

\* Lines 533-540.
LiveContentGenerated(r, content) ==
  /\ runs[r].pc = "gfc"
  /\ LET st == StateOf(r) IN
       IF st.me.dataObj.args.t # "content"
       THEN LiveCommit(Abort(st))
       ELSE LiveCommit(PushResult(st, content, content = ContentError))
  /\ UNCHANGED <<nEvents, pathIn, pathOut, calls, parseVars>>

\* Lines 351-358.
LiveAnswerQuestion(answer) ==
  /\ questionCb # 0
  /\ LET st == [StateOf(questionCb) EXCEPT !.questionCb = 0] IN
       IF Approves(answer)
       THEN LiveCommit([st EXCEPT !.me.pc = "animation"])
       ELSE LiveCommit(GateResolved(st, FALSE))
  /\ UNCHANGED <<nEvents, pathIn, pathOut, calls, parseVars>>

\* Lines 353-354, 561.
LiveAnimationDone(r) ==
  /\ runs[r].pc = "animation"
  /\ LiveCommit(GateResolved(StateOf(r), TRUE))
  /\ UNCHANGED <<nEvents, pathIn, pathOut, calls, parseVars>>

\* Lines 570-577.
LiveOverrideGenerated(r, content) ==
  /\ runs[r].pc = "override"
  /\ LET st == StateOf(r)
         args == JArray(<<FileArgs(st.me.updateFile, content)>>)
         st1 == Materialize([st EXCEPT !.me.dataObj.args = args, !.me.functionResult = <<>>], args)
     IN LiveCommit(AfterOverride(Push([st1 EXCEPT !.me.functionResult = <<>>], "user",
                                      Stringify(st1.me.functionResult[1]))))
  /\ UNCHANGED <<nEvents, pathIn, pathOut, calls, parseVars>>

LiveBackend == \E r \in Runs, reply \in WellFormedReplies : LiveBackendReply(r, reply)
LiveStructure == \E r \in Runs, result \in StructureResults : LiveStructureGenerated(r, result)
LiveContent == \E r \in Runs, content \in ContentResults : LiveContentGenerated(r, content)
LiveAnswer == \E answer \in Answers : LiveAnswerQuestion(answer)
LiveAnimation == \E r \in Runs : LiveAnimationDone(r)
LiveOverride == \E r \in Runs, content \in ContentResults : LiveOverrideGenerated(r, content)

LiveNext ==
  \/ \E msg \in UserMsgs : LiveUserLine(msg)
  \/ LiveBackend
  \/ LiveStructure
  \/ LiveContent
  \/ LiveAnswer
  \/ LiveAnimation
  \/ LiveOverride

\* What the run in progress is waiting for: one of these is enabled at each
\* of its awaits.
LiveReturn ==
  \/ LiveBackend
  \/ LiveStructure
  \/ LiveContent
  \/ LiveAnswer
  \/ LiveAnimation
  \/ LiveOverride

\* Every backend call, tool call, spinner and animation returns, and the
\* prompt is answered.
LiveSpec == Init /\ [][LiveNext]_vars /\ WF_vars(LiveReturn)

\* ------------------------------------------------- normalizePath on its own
RECURSIVE RawPathsOfLen(_)
RawPathsOfLen(n) ==
  IF n = 1 THEN {<<[sep |-> "", name |-> x]>> : x \in Names}
  ELSE {Append(p, [sep |-> s, name |-> x]) : p \in RawPathsOfLen(n - 1), s \in Seps, x \in Names}

RawPaths == UNION {RawPathsOfLen(n) : n \in 1..MaxSegs}

PathInit ==
  /\ WfInit
  /\ fs = InitFs
  /\ calls = <<>>
  /\ pathIn \in RawPaths
  /\ pathOut = <<>>
  /\ NoReply

\* normalizePath is applied to the input drawn.
Normalize ==
  /\ pathOut = <<>>
  /\ pathOut' = normalizePath(pathIn)
  /\ UNCHANGED <<wfVars, fs, pathIn, calls, parseVars>>

PathSpec == PathInit /\ [][Normalize]_vars

\* --------------------------------------------- createDynamicFile on its own
FsFileNames == {Rel(<<"a">>), Rel(<<"a", "b">>), Rel(<<"..", "a">>), Rel(<<"">>)}
FsContents == {"c1", "c2"}
FsArgs == {FileArgs(n, c) : n \in FsFileNames, c \in FsContents}
           \cup {JArray(<<FileArgs(Rel(<<"a">>), "c1")>>)}

FsInit ==
  /\ WfInit
  /\ fs = InitFs
  /\ pathIn = <<>> /\ pathOut = <<>>
  /\ calls = <<>>
  /\ NoReply

\* One call of createDynamicFile; calls records it with the filesystem before
\* and after.
Call(args) ==
  /\ Len(calls) < MaxCalls
  /\ LET res == createDynamicFile(fs, args)
     IN /\ fs' = res.fs
        /\ calls' = Append(calls, [args |-> args, result |-> res.result,
                                   before |-> fs, after |-> res.fs])
  /\ UNCHANGED <<wfVars, pathIn, pathOut, parseVars>>

FsNext == \E args \in FsArgs : Call(args)

FsSpec == FsInit /\ [][FsNext]_vars

\* ------------------------------------- the cleaning of a reply on its own
\* A reply text is a sequence of tokens: the fence (three backquotes), the language tag
\* json, a blank, a line break, and the pieces of a JSON object: its opening
\* brace, its members (carrying the record they spell) and its closing brace.
\* No piece of JSON text holds a line break, and none begins or ends a line
\* with a fence.
Tok(kind) == [k |-> kind, d |-> NoStep]
Fence == Tok("fence")
Tag == Tok("json")
Blank == Tok(" ")
Break == Tok("\n")
Members(d) == [k |-> "members", d |-> d]

\* JSON.stringify(d), and the same text spread over indented lines.
Compact(d) == <<Tok("{"), Members(d), Tok("}")>>
Pretty(d) == <<Tok("{"), Break, Blank, Members(d), Break, Tok("}")>>

\* \s
IsSpace(tok) == tok \in {Blank, Break}
\* ^ and $ under the m flag.
LineStart(text, i) == i = 1 \/ text[i - 1] = Break
LineEnd(text, i) == i = Len(text) \/ text[i + 1] = Break

RECURSIVE SkipSpace(_, _)
\* The first index from i on that holds no white space (\s* is greedy).
SkipSpace(text, i) ==
  IF i <= Len(text) /\ IsSpace(text[i]) THEN SkipSpace(text, i + 1) ELSE i

RECURSIVE EndOfLine(_, _)
\* The index of the line break that ends the line of i, or Len + 1.
EndOfLine(text, i) ==
  IF i > Len(text) \/ text[i] = Break THEN i ELSE EndOfLine(text, i + 1)

RECURSIVE StripFences(_, _, _)
\* Line 480: .replace(/^FENCEjson\s*|\s*FENCE$/gm, ''), FENCE standing for the
\* three backquotes.  At each position the first alternative is tried, then
\* the second; what matches is left out.
StripFences(text, i, acc) ==
  IF i > Len(text) THEN acc
  ELSE IF LineStart(text, i) /\ text[i] = Fence /\ i < Len(text) /\ text[i + 1] = Tag
       THEN StripFences(text, SkipSpace(text, i + 2), acc)
  ELSE LET k == SkipSpace(text, i) IN
       IF k <= Len(text) /\ text[k] = Fence /\ LineEnd(text, k)
       THEN StripFences(text, k + 1, acc)
       ELSE StripFences(text, i + 1, Append(acc, text[i]))

RECURSIVE StripFenceLines(_, _, _)
\* Line 481: .replace(/^FENCE.*$/gm, ''): a line that begins with a fence is
\* emptied, its line break stays.
StripFenceLines(text, i, acc) ==
  IF i > Len(text) THEN acc
  ELSE IF LineStart(text, i) /\ text[i] = Fence
       THEN StripFenceLines(text, EndOfLine(text, i), acc)
       ELSE StripFenceLines(text, i + 1, Append(acc, text[i]))

RECURSIVE StripBreaks(_, _, _)
\* Line 482: .replace(/\n\s*/g, '')
StripBreaks(text, i, acc) ==
  IF i > Len(text) THEN acc
  ELSE IF text[i] = Break
       THEN StripBreaks(text, SkipSpace(text, i + 1), acc)
       ELSE StripBreaks(text, i + 1, Append(acc, text[i]))

RECURSIVE Trim(_)
\* Line 483: .trim()
Trim(text) ==
  IF text = <<>> THEN text
  ELSE IF IsSpace(Head(text)) THEN Trim(Tail(text))
  ELSE IF IsSpace(text[Len(text)]) THEN Trim(SubSeq(text, 1, Len(text) - 1))
  ELSE text

\* Lines 479-483.
Cleaned(response) ==
  Trim(StripBreaks(StripFenceLines(StripFences(response, 1, <<>>), 1, <<>>), 1, <<>>))

\* Line 488: JSON.parse.  White space between the pieces is skipped; anything
\* but one whole object is a SyntaxError.
JSONParse(text) ==
  LET pieces == SelectSeq(text, LAMBDA tok : ~IsSpace(tok))
  IN IF Len(pieces) = 3 /\ pieces[1] = Tok("{") /\ pieces[2].k = "members" /\ pieces[3] = Tok("}")
     THEN [done |-> TRUE, ok |-> TRUE, value |-> pieces[2].d]
     ELSE [done |-> TRUE, ok |-> FALSE, value |-> NoStep]

\* The step records serialized.
ReplyRecords ==
  { StepResponse("analyze", ContentFound, "read_directory", JString(Rel(<<ROOT_DIR>>))),
    StepResponse("final_result", ContentPlain, Null, JNull) }

\* White space in front of and behind a reply, the fence lines that open and
\* close it, with or without the language tag, on lines of their own or on
\* the line of the JSON.
Margins == {<<>>, <<Blank>>, <<Break>>}
FencePairs ==
  {[open |-> o, close |-> c] :
     o \in {<<Fence, Break>>, <<Fence, Tag, Break>>, <<Fence, Tag, Blank>>},
     c \in {<<Break, Fence>>, <<Break, Blank, Fence>>, <<Blank, Fence>>}}
    \cup {[open |-> <<>>, close |-> <<>>]}

\* The well-formed reply texts for the record d.
ReplyTexts(d) ==
  {before \o pair.open \o body \o pair.close \o after :
     before \in Margins, pair \in FencePairs, body \in {Compact(d), Pretty(d)}, after \in Margins}

ParseInit ==
  /\ WfInit
  /\ fs = InitFs
  /\ pathIn = <<>> /\ pathOut = <<>>
  /\ calls = <<>>
  /\ replyRecord \in ReplyRecords
  /\ replyText \in ReplyTexts(replyRecord)
  /\ replyParsed = NotParsed

\* Lines 479-488 applied to the text drawn.
CleanAndParse ==
  /\ ~replyParsed.done
  /\ replyParsed' = JSONParse(Cleaned(replyText))
  /\ UNCHANGED <<wfVars, fs, pathVars, calls, replyRecord, replyText>>

ParseSpec == ParseInit /\ [][CleanAndParse]_vars

\* --------------------------------------------------------------- the claims
IsPrefix(a, b) == Len(a) <= Len(b) /\ SubSeq(b, 1, Len(a)) = a

ContextEmpty(pt, pn, ps, run) ==
  /\ pt = Undefined
  /\ pn = Undefined
  /\ ps = <<>>
  /\ ~run.isUpdateRequest
  /\ ~run.isExecutionRequest
  /\ run.updateIssue = Undefined
  /\ run.updateFile = NoPath

\* C1: in a run classified as a new project, no create_dynamic_file dispatch
\* happens unless the approval gate has answered approve earlier in that run,
\* and a run that ends by rejection has dispatched no create_dynamic_file.
C1_WritesNeedApproval ==
  \A r \in Runs :
    runs[r].class = "new" =>
      /\ ~runs[r].unapproved
      /\ runs[r].rejected => ~runs[r].materialized

\* C2: for every input path, normalizePath returns a path whose first segment
\* is the root 'chaicode' and that lies inside the root.
C2_ConfinedToRoot == pathOut # <<>> => InsideRoot(pathOut)

\* C3: at most one workflow run is in progress at any time.
C3_SingleRun == Cardinality({r \in Runs : InProgress(runs[r])}) <= 1

\* C4: a reply whose step is not one of the five step names is a parse
\* failure: it is not appended to the log, and the run that received it is
\* aborted without dispatching the tool it declares or asking for a further step.
C4_BadStepAborts ==
  /\ \A i \in 1..Len(contents) :
       contents[i].role = "model" => contents[i].text.v.step \in StepTypes
  /\ \A r \in Runs :
       runs[r].dataObj.step \notin StepTypes \cup {NoStep.step} => runs[r].pc = "aborted"

C6_FinalResultResets ==
  [][\A r \in Runs :
       (/\ runs'[r].dataObj.step = "final_result"
        /\ runs'[r] # runs[r])
       => /\ runs'[r].pc = "done"
          /\ runs'[r].requests = runs[r].requests
          /\ ContextEmpty(projectType', projectName', proposedStructure', runs'[r])]_vars

\* C7: the conversation log is append-only over the whole lifetime: every
\* step leaves the previous log as a prefix of the new one, and after N
\* appends the log holds exactly N turns.
C7_LogAppendOnly ==
  [][IsPrefix(contents, contents') /\ Len(contents') = appends']_vars

\* C7 witness: a later run has appended its request to the log that an
\* aborted run left behind, step reply, tool result and all.
C7_Witness ==
  \E r, q \in Runs :
    /\ runs[r].pc = "aborted"
    /\ runs[q].pc = "backend"
    /\ appends >= 5
    /\ contents[Len(contents)] = Turn("user", Text(runs[q].userMsg))

\* C8: every step request carries the full log, in order, as it stands at
\* the moment of the request.
C8_RequestCarriesFullLog ==
  [][\A r \in Runs :
       runs'[r].requests # runs[r].requests => runs'[r].reqBody = contents']_vars

\* C8 witness: a run has sent its third request, with the turns of its
\* earlier steps in the log.
C8_Witness ==
  \E r \in Runs :
    /\ runs[r].pc = "backend"
    /\ runs[r].requests >= 3
    /\ Len(runs[r].reqBody) >= 5

\* The confined target of a recorded call.
Target(call) == normalizePath(call.args.fileName)
\* Nothing above the target is a regular file: its directories exist or can
\* be created.
Creatable(f, target) == ~\E q \in Prefixes(Dirname(target)) : IsFile(f, q)

\* Calls i, i+1, i+2 are on the same path with contents c, c, c' # c, the
\* first on a path where nothing exists.
Triple(i) ==
  /\ i + 2 <= Len(calls)
  /\ \A k \in i..(i + 2) : calls[k].args.t = "file"
  /\ calls[i + 1].args = calls[i].args
  /\ calls[i + 2].args.fileName = calls[i].args.fileName
  /\ calls[i + 2].args.content # calls[i].args.content
  /\ ~existsSync(calls[i].before, Target(calls[i]))

TripleOutcomes(i) ==
  /\ calls[i].result.kind = "created"
  /\ calls[i + 1].result.kind = "unchanged"
  /\ calls[i + 1].after = calls[i + 1].before
  /\ calls[i + 2].result.kind = "updated"

\* C9, as claimed: three calls on the same path, first with c where no file
\* exists, then c again, then c' # c, yield created, unchanged, updated, and
\* the unchanged call leaves the filesystem unchanged.
C9_Original == \A i \in 1..Len(calls) : Triple(i) => TripleOutcomes(i)

\* C9, amended: the same, for a path none of whose parent directories is a
\* regular file.
C9_CreatedUnchangedUpdated ==
  \A i \in 1..Len(calls) :
    Triple(i) /\ Creatable(calls[i].before, Target(calls[i])) => TripleOutcomes(i)

\* C9 witness: the three calls have been made on a nested path that did not exist.
C9_Witness ==
  \E i \in 1..Len(calls) :
    /\ Triple(i)
    /\ Creatable(calls[i].before, Target(calls[i]))
    /\ Len(Target(calls[i])) >= 3

\* After the call the target is a file holding the content supplied.
Holds(call) ==
  /\ IsFile(call.after, Target(call))
  /\ call.after[Target(call)].content = call.args.content

CreatedWithParents(call) ==
  /\ call.result.kind = "created"
  /\ Holds(call)
  /\ \A q \in Prefixes(Dirname(Target(call))) : IsDirectory(call.after, q)

NonErrorHolds ==
  \A i \in 1..Len(calls) :
    calls[i].args.t = "file" /\ calls[i].result.kind # "error" => Holds(calls[i])

\* C10, as claimed: for a record whose confined target does not exist,
\* createDynamicFile reports created, creates the missing parent directories
\* and leaves exactly the content at the target; after any non-error call the
\* target holds exactly the content supplied.
C10_Original ==
  /\ \A i \in 1..Len(calls) :
       calls[i].args.t = "file" /\ ~existsSync(calls[i].before, Target(calls[i]))
         => CreatedWithParents(calls[i])
  /\ NonErrorHolds

\* C10, amended: the same, for a target none of whose parent directories is
\* a regular file.
C10_CreatesWithContent ==
  /\ \A i \in 1..Len(calls) :
       (/\ calls[i].args.t = "file"
        /\ ~existsSync(calls[i].before, Target(calls[i]))
        /\ Creatable(calls[i].before, Target(calls[i])))
         => CreatedWithParents(calls[i])
  /\ NonErrorHolds

\* C10 witness: a file was created below a directory that did not exist.
C10_Witness ==
  \E i \in 1..Len(calls) :
    /\ calls[i].args.t = "file"
    /\ calls[i].result.kind = "created"
    /\ ~existsSync(calls[i].before, Dirname(Target(calls[i])))
    /\ IsDirectory(calls[i].after, Dirname(Target(calls[i])))

\* C11: when the approval gate answers reject the run is aborted on the spot,
\* with nothing appended, written or requested, and it never moves again;
\* when the gate answers approve, 'Proceed to next step' is appended and the
\* next step is requested with it.
C11_RejectAborts ==
  [][\A r \in Runs :
       /\ (runs[r].pc = "approval" /\ runs'[r].rejected)
            => /\ runs'[r].pc = "aborted"
               /\ runs'[r].requests = runs[r].requests
               /\ runs'[r].pushes = runs[r].pushes
               /\ contents' = contents
               /\ fs' = fs
       /\ runs[r].rejected => runs'[r] = runs[r]
       /\ (runs[r].pc = "animation" /\ runs'[r] # runs[r])
            => /\ runs'[r].pc = "backend"
               /\ runs'[r].requests = runs[r].requests + 1
               /\ contents' = Append(contents, Turn("user", ProceedText))
               /\ runs'[r].reqBody = contents']_vars

\* C11 witness: one run has been rejected and is aborted, another has been
\* approved and has requested its next step.
C11_Witness ==
  \E r, q \in Runs :
    /\ runs[r].rejected /\ runs[r].pc = "aborted"
    /\ runs[q].approved /\ runs[q].pc = "backend" /\ runs[q].requests = 2

\* C12: when the backend call yields no usable body, or the reply does not
\* parse, the run is aborted in that iteration: no turn is appended, no tool
\* dispatched, no file written, the gate not asked, nothing requested; an
\* aborted run never moves again.
C12_UnusableReplyAborts ==
  [][\A r \in Runs :
       /\ (runs[r].pc = "backend" /\ runs'[r] # runs[r] /\ runs'[r].response \in {"none", "garbage"})
            => /\ runs'[r].pc = "aborted"
               /\ runs'[r].requests = runs[r].requests
               /\ runs'[r].pushes = runs[r].pushes
               /\ runs'[r].asked = runs[r].asked
               /\ runs'[r].failures = runs[r].failures
               /\ runs'[r].dataObj = runs[r].dataObj
               /\ runs'[r].materialized = runs[r].materialized
               /\ contents' = contents
               /\ fs' = fs
               /\ questionCb' = questionCb
       /\ runs[r].pc = "aborted" => runs'[r] = runs[r]]_vars

\* C12 witness: a run was aborted by a reply that does not parse, after an
\* earlier step, and the next request line has started a run.
C12_Witness ==
  \E r, q \in Runs :
    /\ runs[r].pc = "aborted" /\ runs[r].response = "garbage" /\ runs[r].requests >= 2
    /\ runs[q].pc = "backend" /\ runs[q].requests = 1
    /\ contents[Len(contents)] = Turn("user", Text(runs[q].userMsg))

\* C13: a failure inside a dispatched tool (the error outcome of
\* create_dynamic_file, the error result of read_directory, the placeholder
\* of generate_project_structure or of generate_file_content) does not abort
\* the run: the value is appended to the log as a user turn and the driver
\* goes on.
C13_ToolFailureAbsorbed ==
  [][\A r \in Runs :
       runs'[r].failures > runs[r].failures
         => /\ runs'[r].pc \in {"backend", "approval", "override", "done"}
            /\ runs'[r].pushes > runs[r].pushes
            /\ Len(contents') > Len(contents)
            /\ contents'[Len(contents) + 1].role = "user"
            /\ contents'[Len(contents) + 1].text.t = "json"
            /\ runs'[r].pc = "backend" =>
                 /\ runs'[r].requests = runs[r].requests + 1
                 /\ contents'[Len(contents')] = Turn("user", ProceedText)]_vars

\* C13 witness: create_dynamic_file has failed on the record of a step and
\* the run has requested the next step.
C13_Witness ==
  \E r \in Runs :
    /\ runs[r].failures >= 1
    /\ runs[r].dataObj.args = FileDot
    /\ runs[r].pc = "backend"
    /\ runs[r].requests >= 2

\* C14: every filesystem access of a dispatched tool stays under the root:
\* the directory read_directory lists and every file or directory that
\* create_dynamic_file creates lie inside 'chaicode'.
C14_ToolsStayInRoot ==
  /\ \A p \in DOMAIN fs : InsideRoot(p)
  /\ \A r \in Runs : runs[r].dirRead # <<>> => InsideRoot(runs[r].dirRead)

\* The class the request text has by the precedence update, execution, new.
ClassOf(userMsg) ==
  LET lowerMsg == toLowerCase(userMsg) IN
  IF \E w \in {"not working", "fix", "update"} : includes(lowerMsg, w) THEN "update"
  ELSE IF \E w \in {"run", "execute", "start"} : includes(lowerMsg, w) THEN "execution"
  ELSE "new"

\* C15: an initialization step classifies the request text, case-insensitively,
\* as update, else execution, else new project; at most one of
\* isUpdateRequest and isExecutionRequest is ever true.
C15_Classification ==
  \A r \in Runs :
    /\ ~(runs[r].isUpdateRequest /\ runs[r].isExecutionRequest)
    /\ runs[r].class # "<none>" =>
         /\ runs[r].class = ClassOf(runs[r].userMsg)
         /\ runs[r].pc # "done" =>
              /\ runs[r].isUpdateRequest = (runs[r].class = "update")
              /\ runs[r].isExecutionRequest = (runs[r].class = "execution")

\* C15 witness: a request that names both an update word and an execution
\* word, in upper case, has been classified as an update.
C15_Witness ==
  \E r \in Runs :
    /\ runs[r].class = "update"
    /\ runs[r].isUpdateRequest
    /\ includes(toLowerCase(runs[r].userMsg), "run")
    /\ toLowerCase(runs[r].userMsg) # runs[r].userMsg

\* C16: in a generate_files step of an update run with a resolved updateFile
\* the override replaces the function the backend declared: the run comes to
\* the override straight from the reply, having appended the reply only and
\* written nothing.
C16_OverrideReplacesDeclared ==
  [][\A r \in Runs :
       (runs'[r].pc = "override" /\ runs[r].pc # "override")
         => /\ runs[r].pc = "backend"
            /\ runs'[r].pushes = runs[r].pushes + 1
            /\ fs' = fs]_vars

\* C17: the override materializes the file: after it the file at
\* normalizePath(updateFile) exists and the turn appended for it is a
\* created/updated/unchanged outcome, not an error.
C17_OverrideMaterializes ==
  [][\A r \in Runs :
       (runs[r].pc = "override" /\ runs'[r].pc # "override")
         => /\ IsFile(fs', normalizePath(runs[r].updateFile))
            /\ contents'[Len(contents) + 1].text.v.kind \in {"created", "updated", "unchanged"}]_vars

\* C18: a run at the approval prompt does nothing until the answer comes;
\* the answer approves exactly when, trimmed and lower-cased, it is 'yes',
\* and every other answer rejects.
C18_GateSuspendsAndDecides ==
  [][\A r \in Runs :
       /\ (runs[r].pc = "approval" /\ runs'[r] # runs[r])
            => /\ questionCb = r /\ questionCb' = 0
               /\ contents' = contents
               /\ fs' = fs
               /\ runs'[r].requests = runs[r].requests
               /\ IF TrimLower(runs'[r].answer) = "yes"
                  THEN runs'[r].pc = "animation" /\ ~runs'[r].rejected
                  ELSE runs'[r].pc = "aborted" /\ runs'[r].rejected
       /\ (runs[r].pc = "animation" /\ runs'[r] # runs[r]) => runs'[r].approved]_vars

\* C18 witness: the answer 'y' has rejected one run and the answer ' YES '
\* has approved another.
C18_Witness ==
  \E r, q \in Runs :
    /\ runs[r].answer = "y" /\ runs[r].rejected
    /\ runs[q].answer = " YES " /\ runs[q].pc = "animation"

\* C19: within one run the approval gate is invoked at most once.
C19_SingleShot == \A r \in Runs : runs[r].asked <= 1

\* C20: for every well-formed step record text, bare or wrapped in fence
\* lines and white space, the cleaning followed by JSON.parse recovers the
\* record that was serialized.
C20_RoundTrip ==
  replyParsed.done => replyParsed.ok /\ replyParsed.value = replyRecord

\* C21: whenever the approval gate is invoked the step is generate_structure,
\* the run is neither an update nor an execution query, and the list presented
\* is non-empty and is the list the generate_project_structure dispatch of
\* this run produced, never one left by an earlier run (stated for a run
\* that is the only one in progress).
C21_GatePresentsOwnStructure ==
  [][\A r \in Runs :
       (runs'[r].asked > runs[r].asked /\ \A q \in Runs \ {r} : ~InProgress(runs[q]))
         => /\ runs'[r].dataObj.step = "generate_structure"
            /\ ~runs'[r].isUpdateRequest /\ ~runs'[r].isExecutionRequest
            /\ runs'[r].presented # <<>>
            /\ runs'[r].presented = runs'[r].produced]_vars

\* The function the step declared is one of the registry.
Registered(fn) == fn # Null /\ fn \in available_tools
\* The turn of the tool result of the step, if its function is registered.
ResultTurn(run) == IF Registered(run.declared) THEN <<"result">> ELSE <<>>
\* The turn of the override, in a generate_files step of an update run whose
\* updateFile is resolved.
OverrideTurn(run) ==
  IF run.dataObj.step = "generate_files" /\ run.isUpdateRequest /\ run.updateFile # NoPath
  THEN <<"result">> ELSE <<>>

C23_ListInOrder ==
  [][\A r \in Runs :
       (runs[r].pc = "cdf" /\ runs[r].idx >= 1 /\ runs'[r] # runs[r])
         => LET items == runs[r].dataObj.args.items
                k == runs[r].idx
                res == createDynamicFile(fs, items[k])
                outcomes == Append(runs[r].functionResult, res.result)
            IN /\ Len(runs[r].functionResult) = k - 1
               /\ fs' = res.fs
               /\ IF k < Len(items)
                  THEN /\ runs'[r].pc = "cdf"
                       /\ runs'[r].idx = k + 1
                       /\ runs'[r].functionResult = outcomes
                       /\ contents' = contents
                  ELSE /\ runs'[r].pc # "cdf"
                       /\ contents'[Len(contents) + 1] = Turn("user", Stringify(outcomes))]_vars

\* C23 witness: the two records of a list were written, the second into the
\* directory the first created, and the result holds their outcomes in order.
C23_Witness ==
  \E r \in Runs :
    /\ runs[r].dataObj.args = JArray(<<FileIndex, FileStyle>>)
    /\ runs[r].pc = "backend"
    /\ runs[r].stepTurns = <<"model", "result", "proceed">>
    /\ IsFile(fs, normalizePath(FileIndex.fileName))
    /\ IsFile(fs, normalizePath(FileStyle.fileName))
    /\ contents[Len(contents) - 1] =
         Turn("user", Stringify(<<Outcome("created", normalizePath(FileIndex.fileName)),
                                  Outcome("created", normalizePath(FileStyle.fileName))>>))

\* C24: in an update run an analyze step whose content is "Found project
\* 'todo-app' in 'root' with a style.css." sets updateFile to
\* todo-app/style.css; an analyze step of a run that is not an update leaves
\* updateFile unset.
C24_AnalyzeSetsUpdateFile ==
  [][\A r \in Runs :
       /\ ~runs[r].isUpdateRequest => runs[r].updateFile = NoPath
       /\ (/\ runs[r].pc = "backend" /\ runs'[r] # runs[r]
           /\ runs'[r].stepTurns # <<>>
           /\ runs'[r].dataObj.step = "analyze")
            => /\ (runs[r].isUpdateRequest /\ runs'[r].dataObj.content = ContentFound)
                    => runs'[r].updateFile = Rel(<<"todo-app", "style.css">>)
               /\ (runs[r].isUpdateRequest /\ runs'[r].dataObj.content # ContentFound)
                    => runs'[r].updateFile = runs[r].updateFile
               /\ ~runs[r].isUpdateRequest => runs'[r].updateFile = NoPath]_vars

\* C24 witness: an update run has taken the analyze step with the matching
\* content and holds todo-app/style.css as its updateFile.
C24_Witness ==
  \E r \in Runs :
    /\ runs[r].class = "update"
    /\ runs[r].dataObj.step = "analyze"
    /\ runs[r].dataObj.content = ContentFound
    /\ runs[r].updateFile = Rel(<<"todo-app", "style.css">>)
    /\ runs[r].pc = "backend"

\* C25: the override of generate_files is entered exactly when the run is an
\* update with a resolved updateFile; every other generate_files step does
\* the declared dispatch only, with no further result turn and no file write
\* after it.
C25_OverrideOnlyWhenResolved ==
  [][\A r \in Runs :
       /\ (runs'[r].pc = "override" /\ runs[r].pc # "override")
            => /\ runs'[r].dataObj.step = "generate_files"
               /\ runs'[r].isUpdateRequest
               /\ runs'[r].updateFile # NoPath
       /\ (/\ runs'[r].requests > runs[r].requests /\ runs[r].requests >= 1
           /\ runs'[r].dataObj.step = "generate_files")
            => /\ (runs[r].pc = "override")
                    = (runs'[r].isUpdateRequest /\ runs'[r].updateFile # NoPath)
               /\ runs[r].pc # "override"
                    => /\ runs'[r].stepTurns = <<"model">> \o ResultTurn(runs'[r]) \o <<"proceed">>
                       /\ runs[r].pc # "cdf" => fs' = fs]_vars

\* C25 witness: an update run in which no analyze content matched has taken
\* a generate_files step, written the declared files and requested the next
\* step with no override.
C25_Witness ==
  \E r \in Runs :
    /\ runs[r].class = "update" /\ runs[r].isUpdateRequest
    /\ runs[r].updateFile = NoPath
    /\ runs[r].dataObj.step = "generate_files"
    /\ runs[r].declared = "create_dynamic_file"
    /\ runs[r].materialized
    /\ runs[r].pc = "backend"
    /\ runs[r].stepTurns = <<"model", "result", "proceed">>

\* C26: the path normalizePath returns holds the root segment 'chaicode'
\* as its leading segment only, never nested as chaicode/chaicode/...
C26_NoNestedRoot ==
  pathOut # <<>> => \A i \in 2..Len(pathOut) : pathOut[i] # ROOT_DIR

\* C27: every run terminates: when every backend call and every prompt
\* returns, a run in progress eventually reaches Done or Aborted, whatever
\* well-formed step records the backend replies with.
C27_EveryRunTerminates ==
  (\E r \in Runs : InProgress(runs[r])) ~> (\A r \in Runs : ~InProgress(runs[r]))

\* C28: in a run classified as an execution query no file is written from
\* the initialization step on, and the output of its final_result step is
\* the execution instructions.
C28_ExecutionRunWritesNothing ==
  \A r \in Runs :
    /\ ~runs[r].execWrite
    /\ (runs[r].pc = "done" /\ runs[r].class = "execution") => runs[r].output = "execution"

\* A step the run has just parsed that names no function of the registry.
UnregisteredStep(r) ==
  /\ runs[r].pc = "backend" /\ runs'[r] # runs[r]
  /\ runs'[r].stepTurns # <<>>
  /\ ~Registered(runs'[r].declared)

====
